---------------------------- MODULE Spec2Model ----------------------------
(***************************************************************************)
(* Model of the roadmap generator (roadmap_gen_alpha_v0.4): the module     *)
(* load of generator.py (corpus and vocabulary), the /generate handler     *)
(* generate_roadmaps_for_user (skill resolution, lazy index build, career  *)
(* matching, roadmap synthesis, export) and generator_core.py.             *)
(*                                                                         *)
(* Python strings whose characters matter (skills, tasks, summaries) are   *)
(* sequences of one-character strings; opaque texts (names, fixed titles)  *)
(* are TLA+ strings; an f-string is the tuple of its parts.                *)
(***************************************************************************)
EXTENDS Integers, Sequences, FiniteSets, TLC

(***************************************************************************)
(* Characters and Python str operations                                    *)
(***************************************************************************)

\* The characters of the model in code-point order: space < / < A..Z < a..z.
Alphabet ==
  << " ", "/",
     "A","B","C","D","E","F","G","H","I","J","K","L","M",
     "N","O","P","Q","R","S","T","U","V","W","X","Y","Z",
     "a","b","c","d","e","f","g","h","i","j","k","l","m",
     "n","o","p","q","r","s","t","u","v","w","x","y","z" >>

Chars == { Alphabet[i] : i \in 1..Len(Alphabet) }

\* ord(c), up to the offset of the alphabet.
Ord == [ c \in Chars |-> CHOOSE i \in 1..Len(Alphabet) : Alphabet[i] = c ]

UpperChars == { Alphabet[i] : i \in 3..28 }
LowerChars == { Alphabet[i] : i \in 29..54 }

IsUpper(c) == c \in UpperChars
IsLower(c) == c \in LowerChars
IsSpace(c) == c = " "

LowerChar(c) == IF IsUpper(c) THEN Alphabet[Ord[c] + 26] ELSE c
UpperChar(c) == IF IsLower(c) THEN Alphabet[Ord[c] - 26] ELSE c

\* str.upper()
Upper(s) == [ i \in 1..Len(s) |-> UpperChar(s[i]) ]

\* str.lower()
Lower(s) == [ i \in 1..Len(s) |-> LowerChar(s[i]) ]

\* str.title(): a cased character is upper-cased after an uncased one (or at
\* the start) and lower-cased after a cased one.
Title(s) ==
  [ i \in 1..Len(s) |->
      IF i > 1 /\ (IsUpper(s[i-1]) \/ IsLower(s[i-1]))
      THEN LowerChar(s[i]) ELSE UpperChar(s[i]) ]

\* str.strip(): leading and trailing whitespace removed.
Strip(s) ==
  LET idx == { i \in 1..Len(s) : ~IsSpace(s[i]) }
  IN  IF idx = {} THEN << >>
      ELSE LET lo == CHOOSE i \in idx : \A j \in idx : i <= j
               hi == CHOOSE i \in idx : \A j \in idx : j <= i
           IN  SubSeq(s, lo, hi)

\* a < b for Python strings (lexicographic by code point).
StrLess(a, b) ==
  \E k \in 1..(Len(b)) :
     /\ \A j \in 1..(k-1) : j <= Len(a) /\ a[j] = b[j]
     /\ \/ k = Len(a) + 1
        \/ k <= Len(a) /\ Ord[a[k]] < Ord[b[k]]

\* k in text (substring test).
Contains(text, k) ==
  \E off \in 0..(Len(text) - Len(k)) :
     \A j \in 1..Len(k) : text[off + j] = k[j]

\* str.split(): the maximal runs of non-whitespace characters.
RECURSIVE SplitFrom(_, _, _, _)
SplitFrom(s, i, cur, acc) ==
  IF i > Len(s) THEN (IF cur = << >> THEN acc ELSE Append(acc, cur))
  ELSE IF IsSpace(s[i])
       THEN SplitFrom(s, i + 1, << >>, IF cur = << >> THEN acc ELSE Append(acc, cur))
       ELSE SplitFrom(s, i + 1, Append(cur, s[i]), acc)

Split(s) == SplitFrom(s, 1, << >>, << >>)

\* sorted(list of str): insertion of each element after the elements not
\* greater than it (a stable ascending sort).
RECURSIVE InsertSorted(_, _)
InsertSorted(sorted, x) ==
  IF sorted = << >> THEN << x >>
  ELSE IF StrLess(x, Head(sorted)) THEN << x >> \o sorted
       ELSE << Head(sorted) >> \o InsertSorted(Tail(sorted), x)

RECURSIVE SortedStrings(_)
SortedStrings(list) ==
  IF list = << >> THEN << >>
  ELSE InsertSorted(SortedStrings(SubSeq(list, 1, Len(list) - 1)), list[Len(list)])

\* sorted(set of str)
RECURSIVE SortedSet(_)
SortedSet(S) ==
  IF S = {} THEN << >>
  ELSE LET x == CHOOSE y \in S : TRUE
       IN  InsertSorted(SortedSet(S \ {x}), x)

\* " ".join(tokens)
RECURSIVE JoinSpace(_)
JoinSpace(tokens) ==
  IF tokens = << >> THEN << >>
  ELSE IF Len(tokens) = 1 THEN tokens[1]
       ELSE tokens[1] \o << " " >> \o JoinSpace(Tail(tokens))

Range(seq) == { seq[i] : i \in 1..Len(seq) }

Max2(a, b) == IF a >= b THEN a ELSE b
Min2(a, b) == IF a <= b THEN a ELSE b


\* dict.get(key, default)
Get(c, key, default) == IF key \in DOMAIN c THEN c[key] ELSE default

(***************************************************************************)
(* rapidfuzz: fuzz.token_sort_ratio and process.extractOne                 *)
(***************************************************************************)

\* One row of the longest-common-subsequence table: given the row prev of
\* the prefix a[1..i-1], the row of a[1..i] with a[i] = c. Either c is left
\* unmatched (prev[j]) or it is matched with an equal b[k], k <= j.
LcsRow(prev, c, b) ==
  SubSeq([ j \in 1..Len(b) |->
            LET matched == { (IF k = 1 THEN 0 ELSE prev[k-1]) + 1 :
                               k \in { k \in 1..j : b[k] = c } }
                cands   == matched \cup { prev[j] }
            IN  CHOOSE m \in cands : \A n \in cands : n <= m ],
         1, Len(b))

RECURSIVE LcsRows(_, _, _, _)
LcsRows(a, b, i, prev) ==
  IF i > Len(a) THEN prev
  ELSE LcsRows(a, b, i + 1, LcsRow(prev, a[i], b))

Lcs(a, b) ==
  IF Len(a) = 0 \/ Len(b) = 0 THEN 0
  ELSE LcsRows(a, b, 1, SubSeq([ j \in 1..Len(b) |-> 0 ], 1, Len(b)))[Len(b)]

\* fuzz.ratio: the normalized Indel similarity 2*LCS/(|a|+|b|), as the
\* fraction num/den of 100 (two empty strings are identical).
Ratio(a, b) ==
  IF Len(a) + Len(b) = 0 THEN [ num |-> 1, den |-> 1 ]
  ELSE [ num |-> 2 * Lcs(a, b), den |-> Len(a) + Len(b) ]

\* fuzz.token_sort_ratio: the ratio of the two strings with their
\* whitespace-separated tokens sorted.
token_sort_ratio(s1, s2) ==
  Ratio(JoinSpace(SortedStrings(Split(s1))), JoinSpace(SortedStrings(Split(s2))))

ScoreLess(x, y) == x.num * y.den < y.num * x.den

\* process.extractOne(query, choices, scorer=fuzz.token_sort_ratio): the
\* index of the first choice with the highest score, 0 (None) when there is
\* no choice.
extractOne(query, choices) ==
  LET scores == SubSeq([ i \in 1..Len(choices) |-> token_sort_ratio(query, choices[i]) ],
                       1, Len(choices))
  IN  IF choices = << >> THEN 0
      ELSE CHOOSE i \in 1..Len(choices) :
             /\ \A j \in 1..Len(choices) : ~ScoreLess(scores[i], scores[j])
             /\ \A j \in 1..(i-1) : ScoreLess(scores[j], scores[i])

(***************************************************************************)
(* Data: skill strings, occupations, corpora                               *)
(***************************************************************************)

python  == <<"p","y","t","h","o","n">>
sql     == <<"s","q","l">>
dataviz == <<"d","a","t","a"," ","v","i","s","u","a","l","i","z","a","t","i","o","n">>
pandas  == <<"p","a","n","d","a","s">>
javascript == <<"j","a","v","a","s","c","r","i","p","t">>
react   == <<"r","e","a","c","t">>
html    == <<"h","t","m","l">>
css     == <<"c","s","s">>
py      == <<"p","y">>
js      == <<"j","s">>
go      == <<"g","o">>

\* The in-code fallback corpus.
FALLBACK_DATASET ==
  << [ career |-> "Data Analyst",
       skills |-> << python, sql, dataviz, pandas >>,
       education |-> << "bachelor's" >>,
       description |-> "Analyze data." ],
     [ career |-> "Frontend Developer",
       skills |-> << javascript, react, html, css >>,
       education |-> << "bootcamp", "self-taught" >>,
       description |-> "Build web UI." ] >>


use_py   == <<"u","s","e"," ","P","y">>
write_js == <<"w","r","i","t","e"," ","j","s">>

\* A corpus with tied scores, an occupation without tasks, one whose skills
\* repeat after lower-casing and one with more than five skills.
CORPUS_A ==
  << [ career |-> "Analyst",   skills |-> << py, sql >>, tasks |-> << use_py >> ],
     [ career |-> "Engineer",  skills |-> << py, js >> ],
     [ career |-> "Polyglot",  skills |-> << <<"P","Y">>, py, sql >>, tasks |-> << >> ],
     [ career |-> "Architect", skills |-> << css, go, html, js, py, sql >> ] >>

\* A corpus of sparse entries: one with only a label, one with an empty name.
CORPUS_B ==
  << [ label |-> "Nurse" ],
     [ career |-> "", label |-> "Clerk", skills |-> << py >>, tasks |-> << use_py >> ] >>

\* A corpus without any skill.
CORPUS_C ==
  << [ career |-> "Generalist" ] >>

\* data/careers.json as the import finds it: absent, unreadable or not JSON
\* (open or json.loads raises), blank, or a JSON value.
CareersFiles ==
  { [ kind |-> "absent", value |-> << >> ],
    [ kind |-> "raises", value |-> << >> ],
    [ kind |-> "blank",  value |-> << >> ] }
  \cup { [ kind |-> "json", value |-> v ] : v \in { << >>, CORPUS_A, CORPUS_B, CORPUS_C } }

(***************************************************************************)
(* Bounds and inputs                                                       *)
(***************************************************************************)

\* Most raw skills in one request.
MaxSkills == 3
\* Most entries of the index a query may return as nearest neighbour.
MaxNeighbours == 2

RawSkills == { <<" ","p","y">>, <<"S","q","l">> }
Summaries == { << >>, <<"S","Q","L">> }

RECURSIVE SeqsUpTo(_, _)
SeqsUpTo(S, n) ==
  IF n = 0 THEN { << >> }
  ELSE LET shorter == SeqsUpTo(S, n - 1)
       IN  shorter \cup { Append(q, x) : q \in { r \in shorter : Len(r) = n - 1 }, x \in S }

Payloads == [ skills : SeqsUpTo(RawSkills, MaxSkills), summary : Summaries ]

\* Most tasks of an occupation when get_tasks is applied on its own.
MaxTasks == 6

\* The i-th task of such an occupation: ta, tb, tc, ...
TaskNo(i) == << "t", Alphabet[i + 28] >>

\* Task lists: none, 1 to MaxTasks distinct tasks, and one with a repeated task.
TaskLists ==
  { [ i \in 1..n |-> TaskNo(i) ] : n \in 0..MaxTasks }
    \cup { << TaskNo(1), TaskNo(1), TaskNo(2) >> }

\* Most quiz answers in one request.
MaxAnswers == 3

\* Quiz answers: the four types, a lower-case type, an unknown type, no type.
Answers ==
  { [ type |-> << c >> ] : c \in { "A", "B", "C", "D", "a", "E" } } \cup { [ question |-> "q" ] }

QuizPayloads ==
  [ skills : { << >>, << <<" ","p","y">> >> }, answers : SeqsUpTo(Answers, MaxAnswers) ]

\* Similarities in tenths: below, at and above the threshold.
Similarities == { 5, 6, 7 }

(***************************************************************************)
(* State                                                                   *)
(***************************************************************************)

VARIABLES
  careersFile,     \* data/careers.json
  CAREER_DATASET,  \* generator.CAREER_DATASET
  SKILL_VOCAB,     \* generator.SKILL_VOCAB
  skill_index,     \* embeddings/skill_index.faiss
  skill_mapping,   \* embeddings/skill_mapping.json
  pc,              \* where the process is: import, idle, or a place in the handler
  user_input,      \* the payload of the request being handled
  normalized,      \* normalize_skills: the tokens appended so far
  query,           \* normalize_skills: the outcome of the last query_skill call
  skills,          \* the resolved skills
  scored,          \* the sorted (occupation, score) list
  top,             \* the chosen occupation
  roadmaps,        \* the result of generate_distinct_roadmaps
  response,        \* what the caller of /generate or /download receives
  output_file,     \* generated_roadmaps_output.json exists
  sampled          \* get_tasks on its own: the call and the list it returned

vars == << careersFile, CAREER_DATASET, SKILL_VOCAB, skill_index, skill_mapping, pc, user_input,
           normalized, query, skills, scored, top, roadmaps, response, output_file, sampled >>

NoIndex    == [ present |-> FALSE, skills |-> << >> ]
NoMapping  == [ kind |-> "none", skills |-> << >> ]
NoQuery    == [ kind |-> "none",  nn |-> << >>, d |-> 0 ]
QueryRaise == [ kind |-> "raise", nn |-> << >>, d |-> 0 ]
NoInput    == [ skills |-> << >>, summary |-> << >> ]
NoCareer   == [ unset |-> TRUE ]
NoResponse == [ status |-> 0 ]
NoSample   == [ count |-> 0, prefix |-> "", tasks |-> << >> ]

(***************************************************************************)
(* generator.py: module load                                               *)
(***************************************************************************)

\* Lines 13-30: the corpus the import ends with.
LoadCareers(file) ==
  IF file.kind = "absent" THEN FALLBACK_DATASET
  ELSE LET loaded == IF file.kind = "json" THEN file.value ELSE << >>   \* None
       IN  IF loaded = << >> THEN FALLBACK_DATASET ELSE loaded

\* Lines 32-35: the sorted distinct lower-cased skills of the corpus.
BuildVocab(dataset) ==
  SortedSet(UNION { { Lower(s) : s \in Range(Get(c, "skills", << >>)) } : c \in Range(dataset) })

ImportGenerator ==
  /\ pc = "import"
  /\ CAREER_DATASET' = LoadCareers(careersFile)
  /\ SKILL_VOCAB' = BuildVocab(LoadCareers(careersFile))
  /\ pc' = "idle"
  /\ UNCHANGED << sampled, output_file, careersFile, skill_index, skill_mapping, user_input, normalized, query, skills,
                  scored, top, roadmaps, response >>

(***************************************************************************)
(* generator.py: _derive_skills_from_quiz                                  *)
(***************************************************************************)

analysis == <<"a","n","a","l","y","s","i","s">>
communication == <<"c","o","m","m","u","n","i","c","a","t","i","o","n">>
teaching == <<"t","e","a","c","h","i","n","g">>
empathy == <<"e","m","p","a","t","h","y">>
presentation == <<"p","r","e","s","e","n","t","a","t","i","o","n">>
design == <<"d","e","s","i","g","n">>
creativity == <<"c","r","e","a","t","i","v","i","t","y">>
uiux == <<"u","i","/","u","x">>
writing == <<"w","r","i","t","i","n","g">>
project_management == <<"p","r","o","j","e","c","t"," ","m","a","n","a","g","e","m","e","n","t">>
organization == <<"o","r","g","a","n","i","z","a","t","i","o","n">>
planning == <<"p","l","a","n","n","i","n","g">>
leadership == <<"l","e","a","d","e","r","s","h","i","p">>

\* Lines 70-75
type_to_skills ==
  [ A |-> << python, analysis, sql, dataviz >>,
    B |-> << communication, teaching, empathy, presentation >>,
    C |-> << design, creativity, uiux, writing >>,
    D |-> << project_management, organization, planning, leadership >> ]

\* Line 78: (ans.get('type') or '').upper()
TypeOf(ans) == Upper(Get(ans, "type", << >>))

\* Line 79: type_to_skills.get(t, [])
SkillsOfType(t) ==
  IF Len(t) = 1 /\ t[1] \in DOMAIN type_to_skills THEN type_to_skills[t[1]] ELSE << >>

\* Line 80: tallied[sk] = tallied.get(sk, 0) + 1; the dict is the list of its
\* items in insertion order.
TallyOne(tallied, sk) ==
  IF \E i \in 1..Len(tallied) : tallied[i].skill = sk
  THEN [ i \in 1..Len(tallied) |->
           IF tallied[i].skill = sk THEN [ tallied[i] EXCEPT !.count = @ + 1 ] ELSE tallied[i] ]
  ELSE Append(tallied, [ skill |-> sk, count |-> 1 ])

\* Lines 79-80
RECURSIVE TallySkills(_, _, _)
TallySkills(tallied, list, i) ==
  IF i > Len(list) THEN tallied ELSE TallySkills(TallyOne(tallied, list[i]), list, i + 1)

\* Lines 76-80
RECURSIVE TallyAnswers(_, _, _)
TallyAnswers(answers, i, tallied) ==
  IF i > Len(answers) THEN tallied
  ELSE TallyAnswers(answers, i + 1, TallySkills(tallied, SkillsOfType(TypeOf(answers[i])), 1))

\* Line 82: sorted(items, key=count, reverse=True) keeps the order of equal
\* counts.
RECURSIVE InsertByCount(_, _)
InsertByCount(sorted, x) ==
  IF sorted = << >> THEN << x >>
  ELSE IF Head(sorted).count < x.count THEN << x >> \o sorted
       ELSE << Head(sorted) >> \o InsertByCount(Tail(sorted), x)

RECURSIVE RankFrom(_, _, _)
RankFrom(items, i, acc) ==
  IF i > Len(items) THEN acc ELSE RankFrom(items, i + 1, InsertByCount(acc, items[i]))

\* Line 83: ranked[:8]
TopRanked == 8

\* Lines 68-83
derive_skills_unranked(answers) ==
  LET tallied == TallyAnswers(answers, 1, << >>)
  IN  [ i \in 1..Min2(TopRanked, Len(tallied)) |-> tallied[i].skill ]
derive_skills_from_quiz(answers) ==
  LET ranked == RankFrom(TallyAnswers(answers, 1, << >>), 1, << >>)
  IN  [ i \in 1..Min2(TopRanked, Len(ranked)) |-> ranked[i].skill ]

(***************************************************************************)
(* generator.py: normalize_skills                                          *)
(***************************************************************************)

\* What query_skill(s, k=1) can do: raise (no model, no index file, no
\* mapping file or one that json.load rejects), or return the entry of the
\* mapping at the place the index search gives, with its similarity.
QueryOutcomes(index, mapping) ==
  { QueryRaise } \cup
  ( IF index.present /\ mapping.kind = "json"
    THEN { [ kind |-> "hit", nn |-> mapping.skills[k], d |-> d ] :
             k \in 1..Min2(MaxNeighbours, Min2(Len(index.skills), Len(mapping.skills))),
             d \in Similarities }
    ELSE { } )

\* 0.6, in tenths.
Threshold == 6

\* Line 49: the neighbour is accepted.
AcceptInclusive(d) == d >= Threshold
Accept(d) == d > Threshold

\* Lines 55-56: the fuzzy fallback.
FuzzyFallback(s, vocab) ==
  LET best == extractOne(s, vocab)
  IN  IF best # 0 THEN vocab[best] ELSE Lower(s)

\* Lines 47-56 for the stripped skill s, the outcome q of its query and the
\* token the fuzzy fallback gives for s.
ResolveOneSkipFuzzy(s, q, fallback) ==
  IF q.kind = "hit" /\ Accept(q.d) THEN q.nn
  ELSE IF q.kind = "raise" THEN Lower(s)
  ELSE fallback
ResolveOne(s, q, fallback) ==
  IF q.kind = "hit" /\ Accept(q.d) THEN q.nn
  ELSE fallback

\* Lines 58-62: first occurrences, in order.
RECURSIVE DedupeFrom(_, _, _)
DedupeFrom(list, i, seen) ==
  IF i > Len(list) THEN seen
  ELSE DedupeFrom(list, i + 1,
                  IF list[i] \in Range(seen) THEN seen ELSE Append(seen, list[i]))

DedupeAdjacent(list) ==
  LET keep == { i \in 1..Len(list) : i = 1 \/ list[i] # list[i-1] }
      RECURSIVE Pick(_)
      Pick(i) == IF i > Len(list) THEN << >>
                 ELSE (IF i \in keep THEN << list[i] >> ELSE << >>) \o Pick(i + 1)
  IN  Pick(1)
Dedupe(list) == DedupeFrom(list, 1, << >>)

\* Lines 227-230: the raw skills handed to normalize_skills.
RawOf(input) ==
  Get(input, "skills", << >>) \o derive_skills_from_quiz(Get(input, "answers", << >>))

\* POST /generate: the handler starts on a payload.
Request ==
  /\ pc = "idle"
  /\ \E payload \in Payloads : user_input' = payload
  /\ normalized' = << >>
  /\ pc' = "normalize"
  /\ UNCHANGED << sampled, output_file, careersFile, CAREER_DATASET, SKILL_VOCAB, skill_index, skill_mapping, query,
                  skills, scored, top, roadmaps, response >>

\* POST /generate with quiz answers.
QuizRequest ==
  /\ pc = "idle"
  /\ \E payload \in QuizPayloads : user_input' = payload
  /\ normalized' = << >>
  /\ pc' = "normalize"
  /\ UNCHANGED << sampled, output_file, careersFile, CAREER_DATASET, SKILL_VOCAB, skill_index, skill_mapping, query,
                  skills, scored, top, roadmaps, response >>

\* Lines 44-56: one iteration of the loop over the raw skills.
NormalizeSkill ==
  /\ pc = "normalize"
  /\ Len(normalized) < Len(RawOf(user_input))
  /\ LET s == Strip(RawOf(user_input)[Len(normalized) + 1])
         fallback == FuzzyFallback(s, SKILL_VOCAB)
     IN  \E q \in QueryOutcomes(skill_index, skill_mapping) :
            /\ query' = q
            /\ normalized' = Append(normalized, ResolveOne(s, q, fallback))
  /\ UNCHANGED << sampled, output_file, careersFile, CAREER_DATASET, SKILL_VOCAB, skill_index, skill_mapping, pc,
                  user_input, skills, scored, top, roadmaps, response >>

\* Lines 57-62: the loop is over; dedupe and return.
NormalizeReturn ==
  /\ pc = "normalize"
  /\ Len(normalized) = Len(RawOf(user_input))
  /\ skills' = Dedupe(normalized)
  /\ query' = NoQuery
  /\ pc' = "ensure_index"
  /\ UNCHANGED << sampled, output_file, careersFile, CAREER_DATASET, SKILL_VOCAB, skill_index, skill_mapping, user_input,
                  normalized, scored, top, roadmaps, response >>

(***************************************************************************)
(* generator.py: generate_roadmaps_for_user, index and matching            *)
(***************************************************************************)

\* embeddings_index.build_skill_index(SKILL_VOCAB), lines 23-35: an exception
\* before line 30 (no model; no embedding of an empty list) leaves both files
\* as they were; line 30 writes the index file; then open (line 33) raises
\* and the mapping file stays as it was, or json.dump (line 34) raises and
\* leaves a file that json.load rejects, or the mapping is written.
MappingOutcomes(vocab, mapping) ==
  { mapping, [ kind |-> "blank", skills |-> << >> ], [ kind |-> "json", skills |-> vocab ] }

BuildOutcomes(vocab, index, mapping) ==
  { [ index |-> index, mapping |-> mapping ] } \cup
  ( IF vocab # << >>
    THEN { [ index |-> [ present |-> TRUE, skills |-> vocab ], mapping |-> m ] :
             m \in MappingOutcomes(vocab, mapping) }
    ELSE { } )

\* Lines 233-239: build the index when its file is absent; a failure is
\* swallowed.
EnsureIndex ==
  /\ pc = "ensure_index"
  /\ IF skill_index.present
     THEN UNCHANGED << skill_index, skill_mapping >>
     ELSE \E built \in BuildOutcomes(SKILL_VOCAB, skill_index, skill_mapping) :
            /\ skill_index' = built.index
            /\ skill_mapping' = built.mapping
  /\ pc' = "match"
  /\ UNCHANGED << sampled, output_file, careersFile, CAREER_DATASET, SKILL_VOCAB, user_input, normalized,
                  query, skills, scored, top, roadmaps, response >>

\* Line 243
CSkills(c) == LET sk == Get(c, "skills", << >>) IN [ i \in 1..Len(sk) |-> Lower(sk[i]) ]

\* Line 244
Overlap(resolved, c) == Cardinality(Range(resolved) \cap Range(CSkills(c)))

\* Line 246: a keyword of the first five skills occurs in the summary.
KwBonus(summary, c) ==
  \E i \in 1..Min2(5, Len(CSkills(c))) : Contains(Lower(summary), CSkills(c)[i])

\* Line 247: overlap / max(1, len(cskills) or 1) + kw_bonus, with the bonus
\* 0.2 = 1/5, as the fraction num/den.
Score(resolved, summary, c) ==
  LET n == Max2(1, Len(CSkills(c)))
  IN  [ num |-> 5 * Overlap(resolved, c) + (IF KwBonus(summary, c) THEN n ELSE 0),
        den |-> 5 * n ]

\* Lines 241-248: the (occupation, score) pairs in corpus order; an
\* occupation is named by its place in the corpus.
Scored(dataset, resolved, summary) ==
  [ i \in 1..Len(dataset) |-> [ c |-> i, score |-> Score(resolved, summary, dataset[i]) ] ]

\* Line 249: list.sort(key=score, reverse=True) keeps the order of equal
\* scores.
RECURSIVE InsertDesc(_, _)
InsertDesc(sorted, x) ==
  IF sorted = << >> THEN << x >>
  ELSE IF ScoreLess(Head(sorted).score, x.score) THEN << x >> \o sorted
       ELSE << Head(sorted) >> \o InsertDesc(Tail(sorted), x)

RECURSIVE SortDescFrom(_, _, _)
SortDescFrom(list, i, acc) ==
  IF i > Len(list) THEN acc ELSE SortDescFrom(list, i + 1, InsertDesc(acc, list[i]))

\* The ascending sort reversed: equal scores end in reverse corpus order.
RECURSIVE InsertDescLast(_, _)
InsertDescLast(sorted, x) ==
  IF sorted = << >> THEN << x >>
  ELSE IF ~ScoreLess(x.score, Head(sorted).score) THEN << x >> \o sorted
       ELSE << Head(sorted) >> \o InsertDescLast(Tail(sorted), x)

RECURSIVE SortDescLastFrom(_, _, _)
SortDescLastFrom(list, i, acc) ==
  IF i > Len(list) THEN acc ELSE SortDescLastFrom(list, i + 1, InsertDescLast(acc, list[i]))

SortReversedAscending(list) == SortDescLastFrom(list, 1, << >>)

\* The sort without reverse=True.
RECURSIVE InsertAsc(_, _)
InsertAsc(sorted, x) ==
  IF sorted = << >> THEN << x >>
  ELSE IF ScoreLess(x.score, Head(sorted).score) THEN << x >> \o sorted
       ELSE << Head(sorted) >> \o InsertAsc(Tail(sorted), x)

RECURSIVE SortAscFrom(_, _, _)
SortAscFrom(list, i, acc) ==
  IF i > Len(list) THEN acc ELSE SortAscFrom(list, i + 1, InsertAsc(acc, list[i]))

SortByScoreAsc(list) == SortAscFrom(list, 1, << >>)
SortByScoreDesc(list) == SortDescFrom(list, 1, << >>)

\* Lines 241-250. With an empty corpus line 250 indexes an empty list and
\* raises: the request fails.
Match ==
  /\ pc = "match"
  /\ LET sorted == SortByScoreDesc(Scored(CAREER_DATASET, skills, Get(user_input, "summary", << >>)))
     IN  /\ scored' = sorted
         /\ IF sorted # << >>
            THEN /\ top' = CAREER_DATASET[sorted[1].c]
                 /\ pc' = "generate"
                 /\ UNCHANGED response
            ELSE /\ top' = NoCareer
                 /\ pc' = "respond"
                 /\ response' = [ status |-> 500 ]
  /\ UNCHANGED << sampled, output_file, careersFile, CAREER_DATASET, SKILL_VOCAB, skill_index, skill_mapping, user_input,
                  normalized, query, skills, roadmaps >>

(***************************************************************************)
(* generator_core.py: generate_steps_for_career                            *)
(***************************************************************************)

Take(list, n) == SubSeq(list, 1, Min2(n, Len(list)))

RECURSIVE Filter(_, _, _)
Filter(list, keep, i) ==
  IF i > Len(list) THEN << >>
  ELSE (IF list[i] \in keep THEN << list[i] >> ELSE << >>) \o Filter(list, keep, i + 1)

\* Line 25
Known(career, profile_skills) ==
  Filter(CSkills(career), Range(profile_skills), 1)

\* Line 26
Missing(career, profile_skills) ==
  Filter(CSkills(career), Range(CSkills(career)) \ Range(profile_skills), 1)

\* Lines 28-38
make_step(title, objective, months, prereq, milestones, resources, tasks, children) ==
  [ title |-> title, objective |-> objective, duration_months |-> months,
    prerequisites |-> prereq, milestones |-> milestones, resources |-> resources,
    tasks |-> tasks, children |-> children ]

\* random.sample(population, k): k distinct places of the population, in any
\* order.
Samples(population, k) ==
  { [ i \in 1..k |-> population[f[i]] ] :
      f \in { g \in [ 1..k -> 1..Len(population) ] :
                \A i, j \in 1..k : i # j => g[i] # g[j] } }

\* Lines 45-49: every list get_tasks(count, fallback_prefix) can return.
get_tasks_with_repeats(career_tasks, count, fallback_prefix) ==
  IF career_tasks # << >>
  THEN LET k == Min2(Len(career_tasks), count)
       IN  { [ i \in 1..k |-> career_tasks[f[i]] ] : f \in [ 1..k -> 1..Len(career_tasks) ] }
  ELSE { [ i \in 1..count |-> << fallback_prefix, " ", i >> ] }
get_tasks(career_tasks, count, fallback_prefix) ==
  IF career_tasks # << >>
  THEN Samples(career_tasks, Min2(Len(career_tasks), count))
  ELSE { [ i \in 1..count |-> << fallback_prefix, " ", i >> ] }

\* Lines 65, 122, 134 and 165: the arguments of the four get_tasks calls.
TaskCalls ==
  { [ count |-> 5, prefix |-> "Study fundamental concept" ],
    [ count |-> 4, prefix |-> "Implement basic feature" ],
    [ count |-> 5, prefix |-> "Implement advanced feature" ],
    [ count |-> 4, prefix |-> "Study advanced topic" ] }

\* One of the four get_tasks calls, for the occupation top, up to its return.
GetTasks ==
  /\ pc = "generate"
  /\ \E call \in TaskCalls :
       \E result \in get_tasks(Get(top, "tasks", << >>), call.count, call.prefix) :
         sampled' = [ count |-> call.count, prefix |-> call.prefix, tasks |-> result ]
  /\ pc' = "tasks_returned"
  /\ UNCHANGED << output_file, careersFile, CAREER_DATASET, SKILL_VOCAB, skill_index, skill_mapping,
                  user_input, normalized, query, skills, scored, top, roadmaps, response >>

\* The four get_tasks calls of one generate_steps_for_career call.
TaskDraws(career) ==
  LET career_tasks == Get(career, "tasks", << >>)
  IN  [ fundamentals   : get_tasks(career_tasks, 5, "Study fundamental concept"),
        proj1          : get_tasks(career_tasks, 4, "Implement basic feature"),
        proj2          : get_tasks(career_tasks, 5, "Implement advanced feature"),
        specialization : get_tasks(career_tasks, 4, "Study advanced topic") ]

\* Line 90
SkillsToLearnUncut(career, profile_skills) ==
  IF Missing(career, profile_skills) # << >>
  THEN Missing(career, profile_skills)
  ELSE Get(career, "skills", << >>)
SkillsToLearn(career, profile_skills) ==
  IF Missing(career, profile_skills) # << >>
  THEN Take(Missing(career, profile_skills), 4)
  ELSE Take(Get(career, "skills", << >>), 4)

\* Lines 92-105: the sub-step of the i-th skill to learn (i from 1).
CoreChild(career, profile_skills, i) ==
  LET career_tasks == Get(career, "tasks", << >>)
      sk == SkillsToLearn(career, profile_skills)[i]
      related == { j \in 1..Len(career_tasks) : Contains(Lower(career_tasks[j]), Lower(sk)) }
      related_tasks == Filter(career_tasks, { career_tasks[j] : j \in related }, 1)
      step_tasks == IF related_tasks # << >> THEN Take(related_tasks, 3)
                    ELSE << << "Practice ", sk, " fundamentals" >>,
                            << "Apply ", sk, " in small scenarios" >> >>
  IN  make_step(<< Title(sk), " Proficiency" >>,
                << "Develop proficiency in ", sk >>,
                2,
                IF i = 1 THEN Take(Known(career, profile_skills), 2) ELSE << >>,
                << << "Complete ", sk, " course" >>, << "Demonstrate ", sk, " usage" >>,
                   << "Pass ", sk, " quiz" >> >>,
                << << Title(sk), " Resources" >> >>,
                step_tasks,
                << >>)

\* Lines 55-86
Foundations(career, beginner, draw) ==
  LET career_name == Get(career, "career", "Career")
      children ==
        IF beginner
        THEN << make_step("Industry Fundamentals",
                          << "Understand the core concepts of ", career_name >>,
                          1, << >>,
                          << "Complete introductory course", "Learn industry terminology",
                             "Understand role responsibilities" >>,
                          << "Online Courses", "Industry Glossaries", "Career Guides" >>,
                          draw.fundamentals, << >>),
                make_step("Tools & Environment",
                          "Set up your professional workspace",
                          1, << >>,
                          << "Install necessary software",
                             "Configure development/work environment",
                             "Join professional communities" >>,
                          << "Official Documentation", "Community Forums" >>,
                          << << "Research standard tools for ", career_name >>,
                             "Install primary software tools",
                             "Create account on professional networks" >>,
                          << >>) >>
        ELSE << >>
  IN  make_step("Foundations", "Build essential groundwork for your career",
                IF beginner THEN 1 ELSE 0, << >>,
                << "Complete foundation modules", "Set up workspace" >>,
                << "Standard Industry Tools" >>,
                << "Set up your learning workspace", "Create a study schedule",
                   "Join relevant online communities" >>,
                children)

\* Lines 88-116
CoreSkills(career, profile_skills) ==
  LET career_name == Get(career, "career", "Career")
      n == Len(SkillsToLearn(career, profile_skills))
      core_children == [ i \in 1..n |-> CoreChild(career, profile_skills, i) ]
  IN  make_step("Core Skills Development",
                << "Master essential skills for ", career_name >>,
                Max2(2, n),
                Known(career, profile_skills),
                << "Complete all core skill modules", "Pass skill assessments" >>,
                << "Online Learning Platforms" >>,
                << "Create a skills tracking spreadsheet", "Set up practice projects",
                   "Find a mentor" >>,
                core_children)

\* Lines 118-154
PracticalApplication(career, profile_skills, draw) ==
  LET known == Known(career, profile_skills)
      missing == Missing(career, profile_skills)
      project_children ==
        << make_step("Applied Practice Project",
                     "Apply core skills in a realistic scenario",
                     2, known \o Take(missing, 2),
                     << "Design project scope", "Implement core features", "Document results" >>,
                     << "Project Management Tools", "Documentation Tools" >>,
                     << "Select a real-world problem to solve", "Plan the solution" >>
                        \o draw.proj1,
                     << >>),
           make_step("Advanced Capstone",
                     "Demonstrate comprehensive mastery",
                     2, known \o Take(missing, 3),
                     << "Complete complex project", "Peer review", "Final presentation" >>,
                     << "Advanced Tools" >>,
                     << "Define advanced project requirements" >> \o draw.proj2,
                     << >>) >>
  IN  make_step("Practical Application",
                "Gain hands-on experience through projects or simulations",
                Len(project_children), known,
                << "Complete 2 major projects", "Build portfolio" >>,
                << "Portfolio Platform" >>,
                << "Research industry standard projects", "Document process and outcomes" >>,
                project_children)

\* Lines 156-177
Specialization(career, profile_skills, draw) ==
  LET career_name == Get(career, "career", "Career")
      spec_children ==
        << make_step("Specialization Track", "Deep dive into a specific area",
                     2,
                     Known(career, profile_skills) \o Take(Missing(career, profile_skills), 2),
                     << "Complete specialization course", "Advanced certification",
                        "Master advanced concepts" >>,
                     << "Specialized Training" >>,
                     draw.specialization, << >>) >>
  IN  make_step("Specialization", "Develop expertise in specific areas",
                2, << >>,
                << "Choose specialization", "Achieve advanced competency" >>,
                << "Industry Certifications" >>,
                << << "Research trending specializations in ", career_name >>,
                   "Select a niche" >>,
                spec_children)

\* Lines 179-209
CareerLaunch(career, profile_skills) ==
  LET career_name == Get(career, "career", "Career")
      job_children ==
        << make_step("Professional Branding", "Create compelling professional presence",
                     1, << >>,
                     << "Update resume", "Optimize professional profile", "Build portfolio" >>,
                     << "LinkedIn", "Resume Builder" >>,
                     << << "Tailor resume for ", career_name >>,
                        << "Highlight key skills: ",
                           Take(SkillsToLearn(career, profile_skills), 3) >> >>,
                     << >>),
           make_step("Job Search Strategy", "Execute systematic job search",
                     1, << >>,
                     << "Apply to positions", "Network", "Interview prep" >>,
                     << "Job Boards", "Networking Events" >>,
                     << << "Identify top companies for ", career_name >>,
                        "Prepare for interviews" >>,
                     << >>) >>
  IN  make_step("Career Launch", "Land your first role in the field",
                Len(job_children), << >>,
                << "Complete branding", "Secure job offer" >>,
                << "Job Search Platforms" >>,
                << "Develop job search strategy", "Practice interview questions" >>,
                job_children)

\* Lines 55-209: the five phases before tailoring.
PhasesSwapped(career, profile_skills, beginner, draw) ==
  << Foundations(career, beginner, draw),
     PracticalApplication(career, profile_skills, draw),
     CoreSkills(career, profile_skills),
     Specialization(career, profile_skills, draw),
     CareerLaunch(career, profile_skills) >>
Phases(career, profile_skills, beginner, draw) ==
  << Foundations(career, beginner, draw),
     CoreSkills(career, profile_skills),
     PracticalApplication(career, profile_skills, draw),
     Specialization(career, profile_skills, draw),
     CareerLaunch(career, profile_skills) >>

Lengthen(step) == [ step EXCEPT !.duration_months = @ + 1 ]

\* Lines 211-217: the focus adds a month to one phase.
TailorSpelling(phases, focus) ==
  IF focus = "Depth" THEN [ phases EXCEPT ![2] = Lengthen(@) ]
  ELSE IF focus = "FastEntry" THEN [ phases EXCEPT ![3] = Lengthen(@) ]
  ELSE IF focus = "Transition" THEN [ phases EXCEPT ![5] = Lengthen(@) ]
  ELSE phases
Tailor(phases, focus) ==
  IF focus = "Depth" THEN [ phases EXCEPT ![2] = Lengthen(@) ]
  ELSE IF focus = "Fast-Entry" THEN [ phases EXCEPT ![3] = Lengthen(@) ]
  ELSE IF focus = "Transition" THEN [ phases EXCEPT ![5] = Lengthen(@) ]
  ELSE phases

\* Lines 24-219, for the task lists drawn by its get_tasks calls.
generate_steps_beginner_by_focus(career, profile_skills, focus, beginner, draw) ==
  Tailor(Phases(career, profile_skills, beginner /\ focus # "Fast-Entry", draw), focus)
generate_steps_for_career(career, profile_skills, focus, beginner, draw) ==
  Tailor(Phases(career, profile_skills, beginner, draw), focus)

(***************************************************************************)
(* generator_core.py: generate_distinct_roadmaps                           *)
(***************************************************************************)

\* Line 223
focuses == << "Depth", "Fast-Entry", "Transition" >>

\* Line 227: top_career.get('career') or top_career.get('label', 'Career')
PathTitle(top_career) ==
  IF Get(top_career, "career", "") # "" THEN top_career.career
  ELSE Get(top_career, "label", "Career")

\* Lines 222-229, for the draws of the three generate_steps_for_career
\* calls. The confidence score 0.8 is in tenths.
generate_distinct_roadmaps(profile_skills, top_career, draws) ==
  [ k \in 1..Len(focuses) |->
      [ path_title |-> PathTitle(top_career),
        focus |-> focuses[k],
        confidence_score |-> 8,
        steps |-> generate_steps_for_career(top_career, profile_skills, focuses[k],
                                            TRUE, draws[k]) ] ]

\* Line 251
CoreGenerator ==
  /\ pc = "generate"
  /\ \E draws \in [ 1..Len(focuses) -> TaskDraws(top) ] :
        roadmaps' = generate_distinct_roadmaps(skills, top, draws)
  /\ pc' = "export"
  /\ UNCHANGED << sampled, output_file, careersFile, CAREER_DATASET, SKILL_VOCAB, skill_index, skill_mapping, user_input,
                  normalized, query, skills, scored, top, response >>

(***************************************************************************)
(* generator.py: the result, its export, and the reply of app.generate     *)
(***************************************************************************)

\* Lines 252-257 and 264
Out(input, resolved, chosen, maps) ==
  [ input |-> input, derived_skills |-> resolved, chosen_career |-> chosen.career,
    roadmaps |-> maps,
    images |-> [ k \in 1..Len(maps) |-> << "/static/roadmaps/roadmap_", k, ".png" >> ] ]

\* Lines 252-273: top['career'] raises when the occupation has no name key;
\* then the diagrams are drawn (263), generated_roadmaps_output.json is
\* written (266-267) and the timestamped copy is written (268-272). Each of
\* these succeeds or raises; an exception leaves the handler and the caller
\* gets an error. The output file exists once line 266 has opened it.
ExportStops == { "plot", "open", "dump", "copy", "done" }

Export ==
  /\ pc = "export"
  /\ IF "career" \notin DOMAIN top
     THEN /\ response' = [ status |-> 500 ]
          /\ UNCHANGED output_file
     ELSE \E stop \in ExportStops :
            /\ response' = IF stop = "done"
                            THEN [ status |-> 200, body |-> Out(user_input, skills, top, roadmaps) ]
                            ELSE [ status |-> 500 ]
            /\ output_file' = IF stop \in { "plot", "open" } THEN output_file ELSE TRUE
  /\ pc' = "respond"
  /\ UNCHANGED << sampled, careersFile, CAREER_DATASET, SKILL_VOCAB, skill_index, skill_mapping, user_input,
                  normalized, query, skills, scored, top, roadmaps >>

\* app.py lines 46-51: GET /download replies with the output file, or with
\* 404 when there is none.
Download ==
  /\ pc = "idle"
  /\ response' = IF output_file THEN [ status |-> 200, file |-> "generated_roadmaps_output.json" ]
                                ELSE [ status |-> 404 ]
  /\ pc' = "download"
  /\ UNCHANGED << sampled, output_file, careersFile, CAREER_DATASET, SKILL_VOCAB, skill_index, skill_mapping,
                  user_input, normalized, query, skills, scored, top, roadmaps >>

\* app.py lines 43-44 and 50-51: the reply is sent; the locals of the handler
\* are gone.
Respond ==
  /\ pc \in { "respond", "download" }
  /\ pc' = "idle"
  /\ user_input' = NoInput
  /\ normalized' = << >>
  /\ query' = NoQuery
  /\ skills' = << >>
  /\ scored' = << >>
  /\ top' = NoCareer
  /\ roadmaps' = << >>
  /\ response' = NoResponse
  /\ UNCHANGED << sampled, output_file, careersFile, CAREER_DATASET, SKILL_VOCAB, skill_index, skill_mapping >>

(***************************************************************************)
(* Specifications                                                          *)
(***************************************************************************)

\* The process from the import of generator.py on, the index file and the
\* output file absent.
Init ==
  /\ careersFile \in CareersFiles
  /\ CAREER_DATASET = << >>
  /\ SKILL_VOCAB = << >>
  /\ skill_index = NoIndex
  /\ skill_mapping = NoMapping
  /\ pc = "import"
  /\ user_input = NoInput
  /\ normalized = << >>
  /\ query = NoQuery
  /\ skills = << >>
  /\ scored = << >>
  /\ top = NoCareer
  /\ roadmaps = << >>
  /\ response = NoResponse
  /\ output_file = FALSE
  /\ sampled = NoSample

Next ==
  \/ ImportGenerator
  \/ Request
  \/ NormalizeSkill
  \/ NormalizeReturn
  \/ EnsureIndex
  \/ Match
  \/ CoreGenerator
  \/ Export
  \/ Download
  \/ Respond

Spec == Init /\ [][Next]_vars

(***************************************************************************)
(* Requests with quiz answers, up to the return of normalize_skills, on a  *)
(* corpus without skills                                                   *)
(***************************************************************************)

InitQuiz ==
  /\ Init
  /\ careersFile = [ kind |-> "json", value |-> CORPUS_C ]

NextQuiz ==
  \/ ImportGenerator
  \/ QuizRequest
  \/ NormalizeSkill
  \/ NormalizeReturn

SpecQuiz == InitQuiz /\ [][NextQuiz]_vars

(***************************************************************************)
(* Synthesis on its own: generate_distinct_roadmaps applied to occupations *)
(* with several tasks, with none, and with missing keys                    *)
(***************************************************************************)

SynthCareers ==
  { [ career |-> "Analyst", skills |-> << py, sql >>, tasks |-> << use_py, write_js >> ],
    [ career |-> "Architect", skills |-> << <<"C","s","s">>, go, html, js, py, sql >>,
      tasks |-> << use_py >> ],
    [ career |-> "Empty", skills |-> << >>, tasks |-> << >> ],
    [ career |-> "Generalist" ],
    [ label |-> "Nurse", skills |-> << py >> ] }

SynthProfiles ==
  { << >>, << py >>, << sql, py >>, << go, python >>, << css, go, html, js, py, sql >> }

InitSynth ==
  /\ top \in SynthCareers
  /\ skills \in SynthProfiles
  /\ careersFile = [ kind |-> "json", value |-> << top >> ]
  /\ CAREER_DATASET = << top >>
  /\ SKILL_VOCAB = BuildVocab(<< top >>)
  /\ skill_index = NoIndex
  /\ skill_mapping = NoMapping
  /\ pc = "generate"
  /\ user_input = NoInput
  /\ normalized = skills
  /\ query = NoQuery
  /\ scored = SortByScoreDesc(Scored(<< top >>, skills, << >>))
  /\ roadmaps = << >>
  /\ response = NoResponse
  /\ output_file = FALSE
  /\ sampled = NoSample

SpecSynth == InitSynth /\ [][CoreGenerator]_vars

(***************************************************************************)
(* get_tasks on its own, for occupations with up to MaxTasks tasks         *)
(***************************************************************************)

InitTasks ==
  /\ \E tasks \in TaskLists : top = [ career |-> "Analyst", skills |-> << py, sql >>, tasks |-> tasks ]
  /\ skills = << py >>
  /\ careersFile = [ kind |-> "json", value |-> << top >> ]
  /\ CAREER_DATASET = << top >>
  /\ SKILL_VOCAB = BuildVocab(<< top >>)
  /\ skill_index = NoIndex
  /\ skill_mapping = NoMapping
  /\ pc = "generate"
  /\ user_input = NoInput
  /\ normalized = skills
  /\ query = NoQuery
  /\ scored = SortByScoreDesc(Scored(<< top >>, skills, << >>))
  /\ roadmaps = << >>
  /\ response = NoResponse
  /\ output_file = FALSE
  /\ sampled = NoSample

SpecTasks == InitTasks /\ [][GetTasks]_vars

(***************************************************************************)
(* Properties                                                              *)
(***************************************************************************)

AfterNormalize == { "ensure_index", "match", "generate", "export", "respond" }
AfterMatch     == { "generate", "export" }

FirstIndex(list, x) == CHOOSE i \in 1..Len(list) : list[i] = x /\ \A j \in 1..(i-1) : list[j] # x

\* The raw skill whose token was appended last, stripped.
LastRaw == Strip(RawOf(user_input)[Len(normalized)])
LastToken == normalized[Len(normalized)]

\* r is what the fuzzy path gives for s: the first vocabulary entry of the
\* highest token-sort ratio, or the lower-cased s when the vocabulary is empty.
IsFuzzyChoice(s, r) ==
  IF SKILL_VOCAB = << >> THEN r = Lower(s)
  ELSE \E k \in 1..Len(SKILL_VOCAB) :
         /\ r = SKILL_VOCAB[k]
         /\ \A j \in 1..Len(SKILL_VOCAB) :
              ~ScoreLess(token_sort_ratio(s, SKILL_VOCAB[k]), token_sort_ratio(s, SKILL_VOCAB[j]))
         /\ \A j \in 1..(k-1) :
              ScoreLess(token_sort_ratio(s, SKILL_VOCAB[j]), token_sort_ratio(s, SKILL_VOCAB[k]))

\* C1: the list normalize_skills returns holds no token twice, holds exactly
\* the tokens produced from the input, and orders them by the place of their
\* first occurrence among the produced tokens.
C1_DedupFirstOccurrence ==
  pc \in AfterNormalize =>
    /\ \A i, j \in 1..Len(skills) : i # j => skills[i] # skills[j]
    /\ Range(skills) = Range(normalized)
    /\ \A i, j \in 1..Len(skills) :
         i < j => FirstIndex(normalized, skills[i]) < FirstIndex(normalized, skills[j])

\* C1 witness: three raw skills resolved to a token, another, and the first
\* again, returned as the two tokens in that order.
C1_Witness ==
  /\ pc \in AfterNormalize
  /\ Len(normalized) = 3
  /\ normalized[1] = normalized[3]
  /\ normalized[1] # normalized[2]
  /\ skills = << normalized[1], normalized[2] >>

\* C2: when the query of a skill returns a neighbour with similarity at or
\* below 0.6, the token appended is the fuzzy path's choice; the neighbour is
\* the token when the similarity is above 0.6.
C2_FallbackThreshold ==
  (pc = "normalize" /\ query.kind = "hit") =>
    /\ query.d <= 6 => IsFuzzyChoice(LastRaw, LastToken)
    /\ query.d > 6  => LastToken = query.nn

\* C2 witness: a similarity of exactly 0.6 with a neighbour the fuzzy path
\* does not choose.
C2_Witness ==
  /\ pc = "normalize"
  /\ query.kind = "hit"
  /\ query.d = 6
  /\ query.nn # LastToken
  /\ ~IsFuzzyChoice(LastRaw, query.nn)

\* C3: a skill whose semantic lookup raises gets the fuzzy path's token (its
\* trimmed lower-cased text when the vocabulary is empty); a skill whose
\* lookup returns gets the neighbour or the fuzzy path's token; and
\* normalize_skills returns with every skill of the batch resolved.
C3_FailureIsolation ==
  /\ (pc = "normalize" /\ query.kind = "raise") => IsFuzzyChoice(LastRaw, LastToken)
  /\ (pc = "normalize" /\ query.kind = "hit") =>
        (LastToken = query.nn \/ IsFuzzyChoice(LastRaw, LastToken))
  /\ pc \in AfterNormalize => Len(normalized) = Len(RawOf(user_input))

\* C3 witness: with the index present, the lookup of the second of three
\* skills raises and the skill is resolved to a vocabulary entry that is not
\* its lower-cased text.
C3_Witness ==
  /\ pc = "normalize"
  /\ skill_index.present
  /\ Len(RawOf(user_input)) = 3
  /\ Len(normalized) = 2
  /\ query.kind = "raise"
  /\ LastToken # Lower(LastRaw)
  /\ LastToken \in Range(SKILL_VOCAB)

\* With an empty vocabulary a skill whose lookup raises is resolved to its
\* trimmed lower-cased text.
EmptyVocabResolved ==
  /\ pc = "normalize"
  /\ SKILL_VOCAB = << >>
  /\ query.kind = "raise"
  /\ LastToken = Lower(LastRaw)

\* C4: with a careers file holding an empty list, a generate request is never
\* answered with a result.
C4_EmptyCorpusIsAnError ==
  (pc = "respond" /\ careersFile.kind = "json" /\ careersFile.value = << >>) =>
    response.status # 200

ScoreEq(x, y) == x.num * y.den = y.num * x.den

\* The score line 247 gives occupation i of the corpus for this request.
ScoreOf(i) == Score(skills, Get(user_input, "summary", << >>), CAREER_DATASET[i])

\* C5: the chosen occupation has the highest score of the corpus and is the
\* first of the corpus with that score.
C5_FirstMaximum ==
  pc \in AfterMatch =>
    \E i \in 1..Len(CAREER_DATASET) :
      /\ scored[1].c = i
      /\ top = CAREER_DATASET[i]
      /\ \A j \in 1..Len(CAREER_DATASET) : ~ScoreLess(ScoreOf(i), ScoreOf(j))
      /\ \A j \in 1..(i-1) : ScoreLess(ScoreOf(j), ScoreOf(i))

\* C5 witness: a later occupation ties with the chosen one at a score above 0.
C5_Witness ==
  /\ pc \in AfterMatch
  /\ ScoreLess([ num |-> 0, den |-> 1 ], ScoreOf(scored[1].c))
  /\ \E j \in 1..Len(CAREER_DATASET) :
       j > scored[1].c /\ ScoreEq(ScoreOf(j), ScoreOf(scored[1].c))

\* The score as the claim words it: V the distinct lower-cased skills, the
\* bonus from the first five distinct tokens.
ClaimScore(resolved, summary, c) ==
  LET V == Range(CSkills(c))
      n == Max2(1, Cardinality(V))
      first5 == Take(Dedupe(CSkills(c)), 5)
      bonus == \E i \in 1..Len(first5) : Contains(Lower(summary), first5[i])
  IN  [ num |-> 5 * Cardinality(Range(resolved) \cap V) + (IF bonus THEN n ELSE 0),
        den |-> 5 * n ]

\* C6: every computed score equals |resolved /\ V| / max(1, |V|) + bonus.
C6_ScoreFormula ==
  pc \in AfterMatch =>
    \A k \in 1..Len(scored) :
      ScoreEq(scored[k].score,
              ClaimScore(skills, Get(user_input, "summary", << >>), CAREER_DATASET[scored[k].c]))

PhaseTitles ==
  << "Foundations", "Core Skills Development", "Practical Application",
     "Specialization", "Career Launch" >>

\* C7: every roadmap has exactly the five phases, in the fixed order.
C7_FivePhases ==
  pc = "export" =>
    /\ Len(roadmaps) = 3
    /\ \A k \in 1..3 :
         /\ Len(roadmaps[k].steps) = 5
         /\ \A p \in 1..5 : roadmaps[k].steps[p].title = PhaseTitles[p]

\* C7 witness: the occupation has neither skills nor tasks.
C7_Witness ==
  /\ pc = "export"
  /\ "skills" \notin DOMAIN top
  /\ "tasks" \notin DOMAIN top
  /\ Len(roadmaps[1].steps) = 5

\* The durations of the five phases before tailoring, from the phases' own
\* sub-steps.
UntailoredDuration(steps, p) ==
  CASE p = 1 -> 1
    [] p = 2 -> Max2(2, Len(steps[2].children))
    [] p = 3 -> Len(steps[3].children)
    [] p = 4 -> 2
    [] p = 5 -> Len(steps[5].children)

\* The phase a focus lengthens.
TailoredPhase(focus) ==
  CASE focus = "Depth" -> 2 [] focus = "Fast-Entry" -> 3 [] focus = "Transition" -> 5

\* C8: each roadmap's tailored phase lasts one month more than untailored,
\* its four other phases as long as untailored.
C8_FocusTailoring ==
  pc = "export" =>
    \A k \in 1..3 :
      LET r == roadmaps[k]
      IN  /\ r.focus = focuses[k]
          /\ \A p \in 1..5 :
               r.steps[p].duration_months =
                 UntailoredDuration(r.steps, p) + (IF p = TailoredPhase(r.focus) THEN 1 ELSE 0)

\* C8 witness: four skills to teach; Depth gives Core Skills 5 months and
\* Fast-Entry gives Practical Application 3.
C8_Witness ==
  /\ pc = "export"
  /\ Len(roadmaps[1].steps[2].children) = 4
  /\ roadmaps[1].steps[2].duration_months = 5
  /\ roadmaps[2].steps[2].duration_months = 4
  /\ roadmaps[2].steps[3].duration_months = 3
  /\ roadmaps[3].steps[5].duration_months = 3

\* A roadmap without its focus label and without the durations of the three
\* phases a focus can lengthen.
MaskFocus(r) ==
  [ r EXCEPT !.focus = "",
             !.steps[2].duration_months = 0,
             !.steps[3].duration_months = 0,
             !.steps[5].duration_months = 0 ]

\* The same, also without the task lists that get_tasks drew.
MaskDrawn(r) ==
  [ MaskFocus(r) EXCEPT !.steps[1].children[1].tasks = << >>,
                        !.steps[3].children[1].tasks = SubSeq(@, 1, 2),
                        !.steps[3].children[2].tasks = SubSeq(@, 1, 1),
                        !.steps[4].children[1].tasks = << >> ]

\* The task lists that get_tasks drew, in call order.
Drawn(r) ==
  << r.steps[1].children[1].tasks,
     SubSeq(r.steps[3].children[1].tasks, 3, Len(r.steps[3].children[1].tasks)),
     SubSeq(r.steps[3].children[2].tasks, 2, Len(r.steps[3].children[2].tasks)),
     r.steps[4].children[1].tasks >>

\* C9 as claimed: the three roadmaps are equal but for the focus label and
\* the tailored durations.
C9_OnlyFocusDiffers ==
  pc = "export" =>
    \A a, b \in 1..3 : MaskFocus(roadmaps[a]) = MaskFocus(roadmaps[b])

\* C9 amended: the three roadmaps are equal but for the focus label, the
\* tailored durations and the occupation tasks drawn into the four sampled
\* task lists; the drawn lists have the same lengths in the three roadmaps
\* and hold occupation tasks at distinct places, and are equal when the
\* occupation has fewer than two tasks.
C9_FocusIsolation ==
  pc = "export" =>
    \A a, b \in 1..3 :
      /\ MaskDrawn(roadmaps[a]) = MaskDrawn(roadmaps[b])
      /\ \A n \in 1..4 :
           /\ Len(Drawn(roadmaps[a])[n]) = Len(Drawn(roadmaps[b])[n])
           /\ Get(top, "tasks", << >>) # << >> =>
                Range(Drawn(roadmaps[a])[n]) \subseteq Range(Get(top, "tasks", << >>))
      /\ Len(Get(top, "tasks", << >>)) < 2 => MaskFocus(roadmaps[a]) = MaskFocus(roadmaps[b])

\* C9 witness: an occupation with two tasks whose Depth and Fast-Entry
\* roadmaps list them in different orders.
C9_Witness ==
  /\ pc = "export"
  /\ Len(Get(top, "tasks", << >>)) = 2
  /\ Drawn(roadmaps[1])[1] # Drawn(roadmaps[2])[1]
  /\ MaskDrawn(roadmaps[1]) = MaskDrawn(roadmaps[2])

\* C10: a successful generate call returns three roadmaps, for Depth,
\* Fast-Entry and Transition in this order, each with confidence 0.8 and with
\* the chosen occupation's name, the value of chosen_career, as path_title.
C10_ThreeRoadmaps ==
  (pc = "respond" /\ response.status = 200) =>
    /\ Len(response.body.roadmaps) = 3
    /\ \A k \in 1..3 :
         /\ response.body.roadmaps[k].focus = focuses[k]
         /\ response.body.roadmaps[k].confidence_score = 8
         /\ response.body.roadmaps[k].path_title = top.career
         /\ response.body.roadmaps[k].path_title = response.body.chosen_career

\* C11: whenever normalize_skills has issued a nearest-neighbour query, the
\* index it queries is present: the build precedes the first query.
C11_BuildBeforeQuery ==
  query.kind # "none" => skill_index.present

\* C12: build_skill_index is started by at most one request of the process.
\* A request that reaches the index check starts a build exactly when the
\* index is absent, and the index is never removed; the output file is
\* written only by a request that has passed its own index check. So a
\* request at the check with the output file written and the index absent
\* starts a build after an earlier request started one.
C12_BuildStartedOnce ==
  (pc = "ensure_index" /\ output_file) => skill_index.present

\* C13: once the roadmaps of a request are computed and its result is
\* assembled, the caller receives that result, whether or not drawing the
\* diagrams and writing the JSON files succeed.
C13_ExportFailureKeepsResult ==
  (pc = "respond" /\ "career" \in DOMAIN top /\ Len(roadmaps) = 3) =>
    /\ response.status = 200
    /\ response.body.derived_skills = skills
    /\ response.body.chosen_career = top.career
    /\ response.body.roadmaps = roadmaps

\* The explicit skills, the quiz answers and the quiz-derived skills of the
\* request being handled.
Provided == Get(user_input, "skills", << >>)
QuizAnswers == Get(user_input, "answers", << >>)
Derived == SubSeq(RawOf(user_input), Len(Provided) + 1, Len(RawOf(user_input)))

\* The skills an answer stands for: those of its type A-D, read as written
\* or without regard to case.
AnswerSkills(ans, anyCase) ==
  LET t == IF "type" \in DOMAIN ans THEN (IF anyCase THEN Upper(ans.type) ELSE ans.type)
           ELSE << >>
  IN  IF t \in { <<"A">>, <<"B">>, <<"C">>, <<"D">> } THEN type_to_skills[t[1]] ELSE << >>

QuizTally(sk, anyCase) ==
  Cardinality({ i \in 1..Len(QuizAnswers) : sk \in Range(AnswerSkills(QuizAnswers[i], anyCase)) })

\* When a tallied skill was first seen: the first answer that names it, and
\* its place among the four skills of that answer.
FirstSeen(sk, anyCase) ==
  LET i == CHOOSE i \in 1..Len(QuizAnswers) :
             /\ sk \in Range(AnswerSkills(QuizAnswers[i], anyCase))
             /\ \A j \in 1..(i-1) : sk \notin Range(AnswerSkills(QuizAnswers[j], anyCase))
  IN  4 * i + FirstIndex(AnswerSkills(QuizAnswers[i], anyCase), sk)

RankedBefore(a, b, anyCase) ==
  \/ QuizTally(a, anyCase) > QuizTally(b, anyCase)
  \/ /\ QuizTally(a, anyCase) = QuizTally(b, anyCase)
     /\ FirstSeen(a, anyCase) < FirstSeen(b, anyCase)

\* d is the list of the at most 8 skills of highest tally, in descending
\* tally order, equal tallies in first-seen order.
IsTopEight(d, anyCase) ==
  LET tallied == { sk \in UNION { Range(type_to_skills[k]) : k \in DOMAIN type_to_skills } :
                     QuizTally(sk, anyCase) > 0 }
  IN  /\ Range(d) \subseteq tallied
      /\ Len(d) = Min2(8, Cardinality(tallied))
      /\ \A i, j \in 1..Len(d) : i < j => RankedBefore(d[i], d[j], anyCase)
      /\ \A sk \in tallied \ Range(d) : \A i \in 1..Len(d) : RankedBefore(d[i], sk, anyCase)

\* C14 as claimed: the skills handed to resolution are the explicit skills
\* followed by the top 8 of the tally, where only an answer whose type is
\* one of A, B, C, D as written counts.
C14_QuizAsClaimed ==
  pc = "normalize" =>
    /\ SubSeq(RawOf(user_input), 1, Len(Provided)) = Provided
    /\ IsTopEight(Derived, FALSE)

\* C14 amended: the same with the type of an answer read without regard to
\* case; and normalize_skills resolves the explicit skills first, then the
\* derived ones, one token for each.
C14_QuizTopEight ==
  /\ pc = "normalize" =>
       /\ SubSeq(RawOf(user_input), 1, Len(Provided)) = Provided
       /\ IsTopEight(Derived, TRUE)
  /\ pc = "ensure_index" =>
       /\ Len(normalized) = Len(Provided) + Len(Derived)
       /\ \A i \in 1..Len(Derived) : normalized[Len(Provided) + i] = Derived[i]

\* C14 witness: an explicit skill and three answers of which the last two
\* have the same type, so that the four skills of that type come first and
\* eight derived skills follow the explicit one.
C14_Witness ==
  /\ pc = "ensure_index"
  /\ Len(Provided) = 1
  /\ Len(QuizAnswers) = 3
  /\ Len(Derived) = 8
  /\ QuizTally(Derived[1], TRUE) = 2
  /\ QuizTally(Derived[5], TRUE) = 1
  /\ FirstSeen(Derived[5], TRUE) < FirstSeen(Derived[1], TRUE)
  /\ Len(normalized) = 9

\* The ranking the matcher gives the corpus for the resolved skills S and
\* the summary of the request, and the place of occupation a in a ranking.
RankingFor(S) ==
  SortByScoreDesc(Scored(CAREER_DATASET, S, Get(user_input, "summary", << >>)))

Place(ranking, a) == CHOOSE k \in 1..Len(ranking) : ranking[k].c = a

\* The resolved skills at the places of keep.
RECURSIVE KeptFrom(_, _)
KeptFrom(keep, i) ==
  IF i > Len(skills) THEN << >>
  ELSE (IF i \in keep THEN << skills[i] >> ELSE << >>) \o KeptFrom(keep, i + 1)

\* Occupation a is ranked, for the skills of the request, before every
\* occupation it was ranked before for the fewer skills S.
KeepsRank(a, S) ==
  \A b \in 1..Len(CAREER_DATASET) :
    Place(RankingFor(S), a) < Place(RankingFor(S), b) => Place(scored, a) < Place(scored, b)

\* C15 as claimed: when the resolved skills exceed S only by skills of
\* occupation A, A keeps its rank.
C15_RankAsClaimed ==
  pc \in AfterMatch =>
    \A a \in 1..Len(CAREER_DATASET) : \A keep \in SUBSET (1..Len(skills)) :
      LET S == KeptFrom(keep, 1)
          added == Range(skills) \ Range(S)
      IN  (added # {} /\ added \subseteq Range(CSkills(CAREER_DATASET[a]))) => KeepsRank(a, S)

\* C15 amended: when the resolved skills exceed S only by skills of
\* occupation A that no other occupation has, A keeps its rank.
C15_RankMonotone ==
  pc \in AfterMatch =>
    \A a \in 1..Len(CAREER_DATASET) : \A keep \in SUBSET (1..Len(skills)) :
      LET S == KeptFrom(keep, 1)
          added == Range(skills) \ Range(S)
      IN  ( /\ added # {}
            /\ added \subseteq Range(CSkills(CAREER_DATASET[a]))
            /\ \A b \in 1..Len(CAREER_DATASET) :
                 b # a => added \cap Range(CSkills(CAREER_DATASET[b])) = {} )
          => KeepsRank(a, S)

\* C15 witness: a skill only the last occupation of the corpus has is the
\* one resolved skill, and lifts that occupation from the last place to the
\* first.
C15_Witness ==
  /\ pc \in AfterMatch
  /\ Len(CAREER_DATASET) = 4
  /\ Len(skills) = 1
  /\ skills[1] \in Range(CSkills(CAREER_DATASET[4]))
  /\ \A b \in 1..3 : skills[1] \notin Range(CSkills(CAREER_DATASET[b]))
  /\ Place(RankingFor(<< >>), 4) = 4
  /\ Place(scored, 4) = 1

\* C16: nothing a generate request writes is visible to another request: in
\* a process started without an output file, GET /download finds none.
C16_NoWriteVisible ==
  pc = "download" => response.status = 404

\* C17: when data/careers.json cannot be read or parsed, or is blank or
\* holds an empty list, the process does not get past its start and serves
\* no request.
C17_LoadFailureIsFatal ==
  (careersFile.kind \in { "raises", "blank" } \/ (careersFile.kind = "json" /\ careersFile.value = << >>))
    => pc = "import"

\* The vocabulary of the chosen occupation, in its order, and its entries
\* that are not among the resolved skills.
TopVocabulary == [ i \in 1..Len(Get(top, "skills", << >>)) |-> Lower(Get(top, "skills", << >>)[i]) ]
TopMissing == SelectSeq(TopVocabulary, LAMBDA s : s \notin Range(skills))

\* The skills to teach: the first 4 missing ones, or the first 4 of the
\* vocabulary when none is missing.
ToTeach ==
  LET from == IF TopMissing # << >> THEN TopMissing ELSE TopVocabulary
  IN  [ i \in 1..(IF Len(from) < 4 THEN Len(from) ELSE 4) |-> from[i] ]

\* C18: in each roadmap Core Skills Development has one sub-step for each
\* skill to teach, in order, hence at most 4, and lasts max(2, number of
\* sub-steps) months before tailoring.
C18_CoreSkillsSubSteps ==
  pc = "export" =>
    \A k \in 1..Len(roadmaps) :
      LET core == roadmaps[k].steps[2]
          n == Len(core.children)
      IN  /\ n = Len(ToTeach)
          /\ n <= 4
          /\ \A i \in 1..n : core.children[i].title = << Title(ToTeach[i]), " Proficiency" >>
          /\ core.duration_months =
               (IF n > 2 THEN n ELSE 2) + (IF roadmaps[k].focus = "Depth" THEN 1 ELSE 0)

\* C18 witness: all six skills of the occupation are resolved, so the first
\* four of its vocabulary are taught; the first is spelled Css in the corpus.
C18_Witness ==
  /\ pc = "export"
  /\ Len(TopVocabulary) = 6
  /\ TopMissing = << >>
  /\ Len(roadmaps[2].steps[2].children) = 4
  /\ roadmaps[2].steps[2].duration_months = 4
  /\ roadmaps[2].steps[2].children[1].title = << <<"C","s","s">>, " Proficiency" >>

\* How many tasks a request for up to n occupation tasks yields.
SampledCount(n) ==
  LET tasks == Get(top, "tasks", << >>)
  IN  IF tasks = << >> THEN n ELSE (IF Len(tasks) < n THEN Len(tasks) ELSE n)

\* C19: in each roadmap Practical Application has the sub-steps Applied
\* Practice Project and Advanced Capstone, with the known skills followed by
\* the first 2, respectively 3, missing skills as prerequisites, and each
\* with a task list of two fixed planning tasks followed by the 4,
\* respectively 5, sampled tasks.
C19_PracticalApplication ==
  pc = "export" =>
    \A k \in 1..Len(roadmaps) :
      LET sub == roadmaps[k].steps[3].children
          known == SelectSeq(TopVocabulary, LAMBDA s : s \in Range(skills))
          firstMissing(n) == [ i \in 1..(IF Len(TopMissing) < n THEN Len(TopMissing) ELSE n) |-> TopMissing[i] ]
      IN  /\ Len(sub) = 2
          /\ sub[1].title = "Applied Practice Project"
          /\ sub[2].title = "Advanced Capstone"
          /\ sub[1].prerequisites = known \o firstMissing(2)
          /\ sub[2].prerequisites = known \o firstMissing(3)
          /\ Len(sub[1].tasks) = 2 + SampledCount(4)
          /\ Len(sub[2].tasks) = 2 + SampledCount(5)
          /\ \A j \in 1..Len(roadmaps) : \A c \in 1..2 :
               SubSeq(sub[c].tasks, 1, 2) = SubSeq(roadmaps[j].steps[3].children[c].tasks, 1, 2)

\* How often v occurs in list.
Occurrences(list, v) == Cardinality({ i \in 1..Len(list) : list[i] = v })

\* C20: a get_tasks call for up to N tasks returns, for an occupation with
\* tasks, min(N, number of tasks) of them from distinct places (no task more
\* often than the occupation lists it), and for an occupation without tasks
\* the N placeholders "<prefix> 1" to "<prefix> N".
C20_UpToNTasks ==
  sampled # NoSample =>
    LET tasks == Get(top, "tasks", << >>)
        N == sampled.count
        got == sampled.tasks
    IN  /\ N \in { 4, 5 }
        /\ IF tasks # << >>
           THEN /\ Len(got) = (IF Len(tasks) < N THEN Len(tasks) ELSE N)
                /\ \A v \in Range(got) : Occurrences(got, v) <= Occurrences(tasks, v)
           ELSE /\ Len(got) = N
                /\ \A i \in 1..N : got[i] = << sampled.prefix, " ", i >>

\* C20 witness: five of six tasks, the last of the occupation's tasks
\* returned first and the second one left out.
C20_Witness ==
  /\ Len(Get(top, "tasks", << >>)) = 6
  /\ sampled.count = 5
  /\ Len(sampled.tasks) = 5
  /\ sampled.tasks[1] = top.tasks[6]
  /\ top.tasks[2] \notin Range(sampled.tasks)

\* C21: the index file skill_index.faiss exists only if the mapping file
\* skill_mapping.json exists and lists exactly the vocabulary the index was
\* built from.
C21_IndexFileHasMapping ==
  skill_index.present =>
    /\ skill_mapping.kind = "json"
    /\ skill_mapping.skills = skill_index.skills

=============================================================================
